---- MODULE Spec2Model ----
(***************************************************************************)
(* The Azure architecture dashboard: the script embedded in the page that  *)
(* azure_dashboard_generator.py writes (classification, identifier index,  *)
(* category filter, derived views, relationship graph), and the            *)
(* categorisation of azure_modern_png_generator.py, which reads the same   *)
(* architecture export.                                                    *)
(*                                                                         *)
(* A string of the program is a sequence of one-character strings, so that *)
(* lower-casing, prefix tests and substring tests are computed character   *)
(* by character.  A resource object is identified by its position in       *)
(* allResources (the script only ever holds references to those objects).  *)
(***************************************************************************)
EXTENDS Integers, Sequences, FiniteSets, TLC

VARIABLES
    architectureData,   \* resources.by_type of the export: <<[type, resources]>>
    getIconDefined,     \* whether the page's global scope binds getIcon
    loaded,             \* window.onload has run initializeDashboard
    allResources,       \* the script's allResources, each with its category
    resourceMap,        \* lower-cased id -> position in allResources
    activeFilters,      \* activeFilters.category (NoCategory for null)
    stats,              \* what renderStats last wrote
    cards,              \* the category cards in the container
    selectedCard,       \* the card highlightSelectedCard marks
    tableRows,          \* rows of the resource table (positions)
    network,            \* the vis.Network data last built, or NoNetwork
    nsgCards,           \* the cards of the security-rules view
    lastEvent,          \* the event whose handler ran last on the page
    categories,         \* result of the PNG generator's categorize_resources
    azure,              \* what the az commands and the file system answer
    extractor,          \* azure_architecture_extractor.py: main and its extractor
    diagram,            \* the interactive diagram: its cards and the open detail view
    workflow,           \* azure_extraction_guide.py: run_extraction_workflow
    generator,          \* azure_dashboard_generator.py: the generator and its output
    analyzer            \* azure_dependency_analyzer.py: the security analysis

\* the page and the generator that read an export
pageVars == <<architectureData, getIconDefined, loaded, allResources, resourceMap,
              activeFilters, stats, cards, selectedCard, tableRows, network,
              nsgCards, lastEvent, categories>>

\* the command-line scripts
scriptVars == <<azure, extractor, diagram, workflow, generator, analyzer>>

vars == <<pageVars, scriptVars>>

\* ------------------------------------------------------------------ bounds
MaxResources == 2

\* ----------------------------------------------------------------- strings
UpperCase ==
    <<"A","B","C","D","E","F","G","H","I","J","K","L","M",
      "N","O","P","Q","R","S","T","U","V","W","X","Y","Z">>
LowerCase ==
    <<"a","b","c","d","e","f","g","h","i","j","k","l","m",
      "n","o","p","q","r","s","t","u","v","w","x","y","z">>

Range(s) == {s[i] : i \in DOMAIN s}

lowerOf ==
    [c \in Range(UpperCase) |-> LowerCase[CHOOSE i \in DOMAIN UpperCase : UpperCase[i] = c]]

toLowerCaseChar(c) == IF c \in DOMAIN lowerOf THEN lowerOf[c] ELSE c

\* String.prototype.toLowerCase / str.lower
toLowerCase(s) == [i \in 1..Len(s) |-> toLowerCaseChar(s[i])]

\* String.prototype.startsWith
startsWith(s, prefix) ==
    Len(prefix) <= Len(s) /\ SubSeq(s, 1, Len(prefix)) = prefix

\* Python's `keyword in s`
contains(s, keyword) ==
    \E i \in 0..(Len(s) - Len(keyword)) : SubSeq(s, i + 1, i + Len(keyword)) = keyword

Min(S) == CHOOSE i \in S : \A j \in S : i <= j
Max(S) == CHOOSE i \in S : \A j \in S : i >= j

MS == <<"M","i","c","r","o","s","o","f","t",".">>
ms == <<"m","i","c","r","o","s","o","f","t",".">>
SUBSCRIPTIONS == <<"/","s","u","b","s","c","r","i","p","t","i","o","n","s","/">>

\* -------------------------------------------------- dashboard: getCategory
serviceCategories ==
    << [prefix |-> MS \o <<"C","o","m","p","u","t","e">>, category |-> "Compute"],
       [prefix |-> MS \o <<"S","t","o","r","a","g","e">>, category |-> "Storage"],
       [prefix |-> MS \o <<"D","B","f","o","r","M","y","S","Q","L">>, category |-> "Database"],
       [prefix |-> MS \o <<"D","B","f","o","r","P","o","s","t","g","r","e","S","Q","L">>,
        category |-> "Database"],
       [prefix |-> MS \o <<"S","q","l">>, category |-> "Database"],
       [prefix |-> MS \o <<"N","e","t","w","o","r","k">>, category |-> "Network"],
       [prefix |-> MS \o <<"S","e","c","u","r","i","t","y">>, category |-> "Security"],
       [prefix |-> MS \o <<"I","n","s","i","g","h","t","s">>, category |-> "Monitoring"],
       [prefix |-> MS \o <<"O","p","e","r","a","t","i","o","n","a","l",
                           "I","n","s","i","g","h","t","s">>, category |-> "Monitoring"],
       [prefix |-> MS \o <<"L","o","g","i","c">>, category |-> "Integration"],
       [prefix |-> MS \o <<"A","p","i","M","a","n","a","g","e","m","e","n","t">>,
        category |-> "Integration"],
       [prefix |-> MS \o <<"E","v","e","n","t","G","r","i","d">>, category |-> "Integration"] >>

\* mutant: the category is looked up by the whole type (serviceCategories[type])
getCategory_ExactKey(type) ==
    LET hits == {i \in DOMAIN serviceCategories : type = serviceCategories[i].prefix}
    IN  IF hits = {} THEN "Other" ELSE serviceCategories[Min(hits)].category

\* mutant: the loop leaves through the catch-all before the last entry is tried
getCategory_SkipsLast(type) ==
    LET hits == {i \in 1..(Len(serviceCategories) - 1) :
                    startsWith(type, serviceCategories[i].prefix)}
    IN  IF hits = {} THEN "Other" ELSE serviceCategories[Min(hits)].category

\* for (prefix in serviceCategories) if (type.startsWith(prefix)) return ...;
\* return "Other"
getCategory(type) ==
    LET hits == {i \in DOMAIN serviceCategories :
                    startsWith(type, serviceCategories[i].prefix)}
    IN  IF hits = {} THEN "Other" ELSE serviceCategories[Min(hits)].category

\* ------------------------------------- PNG generator: categorize_resources
type_mapping ==
    << [category |-> "compute",
        keywords |-> << ms \o <<"c","o","m","p","u","t","e">>,
                        ms \o <<"c","o","n","t","a","i","n","e","r","s","e","r","v","i","c","e">>,
                        ms \o <<"c","o","n","t","a","i","n","e","r","i","n","s","t","a","n","c","e">>,
                        ms \o <<"w","e","b">> >>],
       [category |-> "storage",
        keywords |-> << ms \o <<"s","t","o","r","a","g","e">> >>],
       [category |-> "database",
        keywords |-> << ms \o <<"s","q","l">>,
                        ms \o <<"d","o","c","u","m","e","n","t","d","b">>,
                        ms \o <<"d","b","f","o","r","m","y","s","q","l">>,
                        ms \o <<"d","b","f","o","r","p","o","s","t","g","r","e","s","q","l">>,
                        ms \o <<"c","a","c","h","e">> >>],
       [category |-> "network",
        keywords |-> << ms \o <<"n","e","t","w","o","r","k">> >>],
       [category |-> "security",
        keywords |-> << ms \o <<"k","e","y","v","a","u","l","t">>,
                        ms \o <<"s","e","c","u","r","i","t","y">> >>],
       [category |-> "analytics",
        keywords |-> << ms \o <<"s","y","n","a","p","s","e">>,
                        ms \o <<"d","a","t","a","f","a","c","t","o","r","y">>,
                        ms \o <<"d","a","t","a","b","r","i","c","k","s">>,
                        ms \o <<"s","t","r","e","a","m","a","n","a","l","y","t","i","c","s">> >>],
       [category |-> "ai_ml",
        keywords |-> << ms \o <<"c","o","g","n","i","t","i","v","e","s","e","r","v","i","c","e","s">>,
                        ms \o <<"m","a","c","h","i","n","e","l","e","a","r","n","i","n","g",
                                "s","e","r","v","i","c","e","s">> >>],
       [category |-> "integration",
        keywords |-> << ms \o <<"l","o","g","i","c">>,
                        ms \o <<"s","e","r","v","i","c","e","b","u","s">>,
                        ms \o <<"e","v","e","n","t","g","r","i","d">>,
                        ms \o <<"e","v","e","n","t","h","u","b">> >>],
       [category |-> "monitoring",
        keywords |-> << ms \o <<"i","n","s","i","g","h","t","s">>,
                        ms \o <<"o","p","e","r","a","t","i","o","n","a","l",
                                "i","n","s","i","g","h","t","s">> >>] >>

\* any(keyword in resource_type_lower for keyword in keywords)
keywordMatch(resource_type_lower, keywords) ==
    \E k \in DOMAIN keywords : contains(resource_type_lower, keywords[k])

\* the inner loop of categorize_resources: the first category of type_mapping
\* with a matching keyword, else 'other'
categoryOfType(resource_type) ==
    LET resource_type_lower == toLowerCase(resource_type)
        hits == {i \in DOMAIN type_mapping :
                    keywordMatch(resource_type_lower, type_mapping[i].keywords)}
    IN  IF hits = {} THEN "other" ELSE type_mapping[Min(hits)].category

\* ------------------------------------------------------------ JSON values
\* A value of the export: string | number | boolean | null | mapping |
\* sequence, and undefined for an attribute that is absent.  A mapping is the
\* sequence of its [key, val] entries in for-in order; a sequence is the same
\* with its positions as keys.
Undefined == [tag |-> "undefined", str |-> <<>>, num |-> 0, items |-> <<>>]
Null      == [tag |-> "null", str |-> <<>>, num |-> 0, items |-> <<>>]
Str(s)    == [tag |-> "string", str |-> s, num |-> 0, items |-> <<>>]
Num(n)    == [tag |-> "number", str |-> <<>>, num |-> n, items |-> <<>>]
Bool(b)   == [tag |-> "boolean", str |-> <<>>, num |-> IF b THEN 1 ELSE 0, items |-> <<>>]
Obj(kvs)  == [tag |-> "object", str |-> <<>>, num |-> 0, items |-> kvs]
Arr(vs)   == [tag |-> "array", str |-> <<>>, num |-> 0,
              items |-> [i \in 1..Len(vs) |-> [key |-> "#", val |-> vs[i]]]]

\* typeof v === 'object' && v !== null
isObject(v) == v.tag \in {"object", "array"}

\* obj[key] of a mapping: the value of the entry, undefined when there is none
get(obj, key) ==
    IF obj.tag = "object" /\ \E i \in DOMAIN obj.items : obj.items[i].key = key
    THEN obj.items[Max({i \in DOMAIN obj.items : obj.items[i].key = key})].val
    ELSE Undefined

RECURSIVE Flatten(_)
Flatten(ss) == IF ss = <<>> THEN <<>> ELSE Head(ss) \o Flatten(Tail(ss))

RECURSIVE SortedSeq(_)
SortedSeq(S) == IF S = {} THEN <<>> ELSE <<Min(S)>> \o SortedSeq(S \ {Min(S)})

NoCategory == "null"
NoNetwork  == [nodes |-> <<>>, edges |-> <<>>, built |-> FALSE]
NoStats    == [total |-> 0, resourceGroups |-> 0, locations |-> 0]

\* ------------------------------------------- extractor: get_all_resources
\* an attribute the export leaves out reads as undefined
Missing == "undefined"

\* a resource without a 'type' key
NoType == <<"undefined">>

Unknown == <<"U","n","k","n","o","w","n">>

\* resource.get('type', 'Unknown')
resource_type(resource) == IF resource.type = NoType THEN Unknown ELSE resource.type

\* resource.get('resourceGroup', 'Unknown')
resource_group(resource) ==
    IF resource.resourceGroup = Missing THEN "Unknown" ELSE resource.resourceGroup

\* by_type of get_all_resources: the resources grouped under their type, the
\* groups in order of first occurrence, each group in input order.
by_type(all_resources) ==
    LET firsts == {i \in DOMAIN all_resources :
                      \A j \in 1..(i - 1) :
                         resource_type(all_resources[j]) # resource_type(all_resources[i])}
        order  == SortedSeq(firsts)
    IN  [g \in DOMAIN order |->
            [type |-> resource_type(all_resources[order[g]]),
             resources |-> SelectSeq(all_resources,
                               LAMBDA r : resource_type(r)
                                             = resource_type(all_resources[order[g]]))]]

\* mutant: a resource without a resource group is left out of the grouping
by_resource_group_SkipsMissing(all_resources) ==
    LET grouped == SelectSeq(all_resources, LAMBDA r : r.resourceGroup # Missing)
        firsts  == {i \in DOMAIN grouped :
                       \A j \in 1..(i - 1) :
                          resource_group(grouped[j]) # resource_group(grouped[i])}
        order   == SortedSeq(firsts)
    IN  [g \in DOMAIN order |->
            [resourceGroup |-> resource_group(grouped[order[g]]),
             resources |-> SelectSeq(grouped,
                               LAMBDA r : resource_group(r)
                                             = resource_group(grouped[order[g]]))]]

\* by_resource_group of get_all_resources, built in the same loop
by_resource_group(all_resources) ==
    LET firsts == {i \in DOMAIN all_resources :
                      \A j \in 1..(i - 1) :
                         resource_group(all_resources[j]) # resource_group(all_resources[i])}
        order  == SortedSeq(firsts)
    IN  [g \in DOMAIN order |->
            [resourceGroup |-> resource_group(all_resources[order[g]]),
             resources |-> SelectSeq(all_resources,
                               LAMBDA r : resource_group(r)
                                             = resource_group(all_resources[order[g]]))]]

\* self.resources as __init__ leaves it ({})
NoResources == [set |-> FALSE, by_type |-> <<>>, by_resource_group |-> <<>>, all |-> <<>>]

\* get_all_resources: `result` is what `az resource list` gave; on a non-zero
\* return code or an exception self.resources stays as it was
get_all_resources(result, resources) ==
    IF result.returncode = 0
    THEN [set |-> TRUE, by_type |-> by_type(result.stdout),
          by_resource_group |-> by_resource_group(result.stdout), all |-> result.stdout]
    ELSE resources

\* ----------------------------- extractor: analyze_architecture_patterns
\* the if / elif chain, in order
patternBranches ==
    << [pattern |-> "web_applications", keywords |-> <<<<"w","e","b">>, <<"a","p","p">>, <<"f","u","n","c","t","i","o","n">>>>],
       [pattern |-> "databases",
        keywords |-> <<<<"s","q","l">>, <<"c","o","s","m","o","s">>, <<"m","y","s","q","l">>, <<"p","o","s","t","g","r","e","s","q","l">>>>],
       [pattern |-> "storage_accounts", keywords |-> <<<<"s","t","o","r","a","g","e">>>>],
       [pattern |-> "networking",
        keywords |-> <<<<"n","e","t","w","o","r","k">>, <<"v","n","e","t">>, <<"s","u","b","n","e","t">>, <<"n","s","g">>, <<"l","b">>>>],
       [pattern |-> "compute",
        keywords |-> <<<<"v","m">>, <<"c","o","m","p","u","t","e">>, <<"c","o","n","t","a","i","n","e","r">>, <<"k","u","b","e","r","n","e","t","e","s">>>>],
       [pattern |-> "security", keywords |-> <<<<"v","a","u","l","t">>, <<"s","e","c","u","r","i","t","y">>, <<"i","d","e","n","t","i","t","y">>>>],
       [pattern |-> "monitoring", keywords |-> <<<<"m","o","n","i","t","o","r">>, <<"i","n","s","i","g","h","t","s">>, <<"l","o","g">>>>],
       [pattern |-> "devops", keywords |-> <<<<"d","e","v","o","p","s">>, <<"p","i","p","e","l","i","n","e">>, <<"r","e","g","i","s","t","r","y">>>>] >>

\* the branches whose test a type passes
branchesOf(type) ==
    {b \in DOMAIN patternBranches : keywordMatch(toLowerCase(type), patternBranches[b].keywords)}

\* mutant: every test is an `if` of its own, a type goes to each list it matches
analyze_architecture_patterns_EveryMatch(resources) ==
    [b \in DOMAIN patternBranches |->
        [pattern   |-> patternBranches[b].pattern,
         resources |-> Flatten([g \in DOMAIN resources.by_type |->
                          IF b \in branchesOf(resources.by_type[g].type)
                          THEN resources.by_type[g].resources ELSE <<>>])]]

\* analyze_architecture_patterns: each by_type list is appended to the list
\* of the first branch its lower-cased type passes
analyze_architecture_patterns(resources) ==
    [b \in DOMAIN patternBranches |->
        [pattern   |-> patternBranches[b].pattern,
         resources |-> Flatten([g \in DOMAIN resources.by_type |->
                          IF branchesOf(resources.by_type[g].type) # {}
                             /\ b = Min(branchesOf(resources.by_type[g].type))
                          THEN resources.by_type[g].resources ELSE <<>>])]]

\* export_to_json: the data json.dump writes
export_to_json(subscription_id, resource_groups, resources) ==
    [metadata |-> [subscription_id |-> subscription_id,
                   total_resources |-> Len(resources.all),
                   total_resource_groups |-> Len(resource_groups)],
     resource_groups |-> resource_groups,
     resources |-> resources,
     architecture_patterns |-> analyze_architecture_patterns(resources)]

\* --------------------------------------------- dashboard: derived views
\* mutant: the filter keeps the resources of every other category (!==)
filteredResources_Negated(all, category) ==
    SortedSeq({i \in DOMAIN all : category = NoCategory \/ all[i].category # category})

\* allResources.filter(r => !activeFilters.category || r.category === ...)
filteredResources(all, category) ==
    SortedSeq({i \in DOMAIN all : category = NoCategory \/ all[i].category = category})

\* mutant: the sets are taken over allResources, only the total over the filter
renderStats_GroupsOfAll(resources, all) ==
    [total          |-> Len(resources),
     resourceGroups |-> Cardinality({all[i].resourceGroup : i \in DOMAIN all}),
     locations      |-> Cardinality({all[i].location : i \in DOMAIN all})]

\* renderStats
renderStats(resources, all) ==
    [total          |-> Len(resources),
     resourceGroups |-> Cardinality({all[resources[i]].resourceGroup : i \in DOMAIN resources}),
     locations      |-> Cardinality({all[resources[i]].location : i \in DOMAIN resources})]

\* Object.keys(categoryCounts).sort(): the eight category names in code-unit order
sortedCategories ==
    <<"Compute", "Database", "Integration", "Monitoring",
      "Network", "Other", "Security", "Storage">>

\* mutant: the count is set, not incremented
categoryCounts_NotIncremented(resources, category) ==
    IF \E i \in DOMAIN resources : resources[i].category = category THEN 1 ELSE 0

\* categoryCounts[category] = (categoryCounts[category] || 0) + 1
categoryCounts(resources, category) ==
    Cardinality({i \in DOMAIN resources : resources[i].category = category})

\* mutant: a card is built for each of the eight categories, also with count 0
renderDashboardView_EveryCategory(container, resources) ==
    IF Len(container) > 0
    THEN container
    ELSE [k \in DOMAIN sortedCategories |->
             [category |-> sortedCategories[k],
              count |-> categoryCounts(resources, sortedCategories[k])]]

\* renderDashboardView: the cards are built once, from the resources passed
renderDashboardView(container, resources) ==
    IF Len(container) > 0
    THEN container
    ELSE LET present == SelectSeq(sortedCategories,
                            LAMBDA c : categoryCounts(resources, c) > 0)
         IN  [k \in DOMAIN present |->
                 [category |-> present[k], count |-> categoryCounts(resources, present[k])]]

\* highlightSelectedCard
highlightSelectedCard(container, category) ==
    IF category # NoCategory /\ \E k \in DOMAIN container : container[k].category = category
    THEN category
    ELSE NoCategory

\* ------------------------------------------------- dashboard: the index
\* resourceMap is a Map: its entries [key, value] in insertion order
has(map, key) == \E k \in DOMAIN map : map[k].key = key
mapGet(map, key) == map[CHOOSE k \in DOMAIN map : map[k].key = key].value

\* mutant: a key already in the map is not set again (if (!resourceMap.has(k)))
buildResourceMap_FirstWins(all) ==
    LET keyOf(i) == toLowerCase(all[i].id)
        firsts   == SortedSeq({i \in DOMAIN all :
                                  \A j \in 1..(i - 1) : keyOf(j) # keyOf(i)})
    IN  [k \in DOMAIN firsts |-> [key |-> keyOf(firsts[k]), value |-> firsts[k]]]

\* resourceMap.set(r.id.toLowerCase(), r) for every resource in order: a key
\* set again keeps its place and takes the later resource
buildResourceMap(all) ==
    LET keyOf(i) == toLowerCase(all[i].id)
        firsts   == SortedSeq({i \in DOMAIN all :
                                  \A j \in 1..(i - 1) : keyOf(j) # keyOf(i)})
    IN  [k \in DOMAIN firsts |->
            [key   |-> keyOf(firsts[k]),
             value |-> Max({i \in DOMAIN all : keyOf(i) = keyOf(firsts[k])})]]

\* renderResourceExplorer: the cells of the row of resource r (${r.name}, ...);
\* an attribute the resource lacks prints as the text undefined
rowCells(r) ==
    [name |-> r.name, type |-> r.type, resourceGroup |-> r.resourceGroup,
     location |-> r.location]

\* -------------------------------------- dashboard: renderNetworkTopology
\* mutant: the edge is emitted without the comparison with r.id
leafEdges_NoSelfGuard(str, r, all, map, filteredResourceIds) ==
    LET val == toLowerCase(str)
    IN  IF startsWith(val, SUBSCRIPTIONS) /\ has(map, val) /\ val \in filteredResourceIds
        THEN << [from |-> all[r].id, to |-> all[mapGet(map, val)].id] >>
        ELSE <<>>

\* mutant: the value is taken for an id without looking it up
leafEdges_NoLookup(str, r, all, map, filteredResourceIds) ==
    LET val == toLowerCase(str)
    IN  IF startsWith(val, SUBSCRIPTIONS) /\ toLowerCase(all[r].id) # val
        THEN << [from |-> all[r].id,
                 to   |-> IF has(map, val) THEN all[mapGet(map, val)].id ELSE val] >>
        ELSE <<>>

\* mutant: the index is filled while the resources are scanned, so a value
\* finds only the resources met before its own
leafEdges_SeenBefore(str, r, all, map, filteredResourceIds) ==
    LET val == toLowerCase(str)
    IN  IF startsWith(val, SUBSCRIPTIONS) /\ has(map, val) /\ val \in filteredResourceIds
           /\ toLowerCase(all[r].id) # val /\ mapGet(map, val) < r
        THEN << [from |-> all[r].id, to |-> all[mapGet(map, val)].id] >>
        ELSE <<>>

\* the string branch of scanProperties: the edges one string value yields
leafEdges(str, r, all, map, filteredResourceIds) ==
    LET val == toLowerCase(str)
    IN  IF startsWith(val, SUBSCRIPTIONS) /\ has(map, val) /\ val \in filteredResourceIds
           /\ toLowerCase(all[r].id) # val
        THEN << [from |-> all[r].id, to |-> all[mapGet(map, val)].id] >>
        ELSE <<>>

\* for (const key in obj): strings are tested, mappings and sequences are
\* entered, every other value is passed over
RECURSIVE scanKeys(_, _, _, _, _)
scanKeys(items, r, all, map, filteredResourceIds) ==
    IF items = <<>>
    THEN <<>>
    ELSE LET v == Head(items).val
             here == IF v.tag = "string"
                     THEN leafEdges(v.str, r, all, map, filteredResourceIds)
                     ELSE IF isObject(v)
                          THEN scanKeys(v.items, r, all, map, filteredResourceIds)
                          ELSE <<>>
         IN  here \o scanKeys(Tail(items), r, all, map, filteredResourceIds)

\* scanProperties(r.properties): for-in over undefined, null, a number or a
\* boolean runs no iteration; over a string it meets one-character strings,
\* none of which starts with '/subscriptions/'
scanProperties(obj, r, all, map, filteredResourceIds) ==
    IF isObject(obj) THEN scanKeys(obj.items, r, all, map, filteredResourceIds) ELSE <<>>

\* getIcon is declared nowhere in the script: the call in the node literal
\* of the first resource throws a ReferenceError unless the page's global
\* scope (filled by the two scripts it loads from a CDN) binds the name
topologyThrows(resources, iconDefined) == Len(resources) > 0 /\ ~iconDefined

\* renderNetworkTopology: the nodes (one per distinct id) and the edges in
\* scan order; when the call throws nothing is built and the old network stays
renderNetworkTopology(resources, all, map, iconDefined, previous) ==
    IF topologyThrows(resources, iconDefined)
    THEN previous
    ELSE LET filteredResourceIds == {toLowerCase(all[resources[i]].id) : i \in DOMAIN resources}
             kept == SortedSeq({i \in DOMAIN resources :
                        \A j \in 1..(i - 1) : all[resources[j]].id # all[resources[i]].id})
         IN  [nodes |-> [k \in DOMAIN kept |->
                            [id    |-> all[resources[kept[k]]].id,
                             label |-> all[resources[kept[k]]].name,
                             title |-> all[resources[kept[k]]].type,
                             group |-> all[resources[kept[k]]].resourceGroup]],
              edges |-> Flatten([i \in DOMAIN resources |->
                            scanProperties(all[resources[i]].properties, resources[i],
                                           all, map, filteredResourceIds)]),
              built |-> TRUE]

\* ------------------------------------------ dashboard: renderSecurityView
networkSecurityGroups ==
    MS \o <<"N","e","t","w","o","r","k","/","n","e","t","w","o","r","k",
            "S","e","c","u","r","i","t","y","G","r","o","u","p","s">>

\* (x || []): the model's exports give these attributes a sequence or leave
\* them out
orEmpty(v) == IF v.tag = "array" THEN [i \in DOMAIN v.items |-> v.items[i].val] ELSE <<>>

priority(rule) == get(get(rule, "properties"), "priority").num

\* rules.sort((a, b) => a.properties.priority - b.properties.priority):
\* Array.prototype.sort is stable
RECURSIVE sortRules(_)
sortRules(rules) ==
    IF rules = <<>>
    THEN <<>>
    ELSE LET least == Min({priority(rules[i]) : i \in DOMAIN rules})
             at    == Min({i \in DOMAIN rules : priority(rules[i]) = least})
         IN  <<rules[at]>> \o
             sortRules([i \in 1..(Len(rules) - 1) |-> IF i < at THEN rules[i] ELSE rules[i + 1]])

\* reading nsg.properties.securityRules of an absent properties, or a member
\* of rule.properties of a rule without properties, throws a TypeError
nsgThrows(nsg) ==
    \/ nsg.properties.tag \in {"undefined", "null"}
    \/ \E rule \in Range(orEmpty(get(nsg.properties, "securityRules"))
                         \o orEmpty(get(nsg.properties, "defaultSecurityRules"))) :
          get(rule, "properties").tag \in {"undefined", "null"}

\* mutant: container.innerHTML = '' is left out, the cards of the last call stay
renderSecurityView_NotCleared(resources, all) ==
    LET nsgs  == SelectSeq(resources, LAMBDA i : all[i].type = networkSecurityGroups)
        upto  == IF \E k \in DOMAIN nsgs : nsgThrows(all[nsgs[k]])
                 THEN Min({k \in DOMAIN nsgs : nsgThrows(all[nsgs[k]])}) - 1
                 ELSE Len(nsgs)
    IN  nsgCards \o
        [k \in 1..upto |->
            [nsg   |-> nsgs[k],
             rules |-> sortRules(orEmpty(get(all[nsgs[k]].properties, "securityRules"))
                                 \o orEmpty(get(all[nsgs[k]].properties,
                                                "defaultSecurityRules")))]]

\* renderSecurityView: one card per network security group, in order, up to
\* the first group whose rendering throws
renderSecurityView(resources, all) ==
    LET nsgs  == SelectSeq(resources, LAMBDA i : all[i].type = networkSecurityGroups)
        upto  == IF \E k \in DOMAIN nsgs : nsgThrows(all[nsgs[k]])
                 THEN Min({k \in DOMAIN nsgs : nsgThrows(all[nsgs[k]])}) - 1
                 ELSE Len(nsgs)
    IN  [k \in 1..upto |->
            [nsg   |-> nsgs[k],
             rules |-> sortRules(orEmpty(get(all[nsgs[k]].properties, "securityRules"))
                                 \o orEmpty(get(all[nsgs[k]].properties,
                                                "defaultSecurityRules")))]]

\* mutant: rules is nsg.properties.securityRules itself (no concat), so the
\* sort reorders the array of the resource
resourcesAfterSecurityView_SortsInPlace(resources, all) ==
    LET shown == {renderSecurityView(resources, all)[k].nsg :
                     k \in DOMAIN renderSecurityView(resources, all)}
        setKey(obj, key, val) ==
            Obj([i \in DOMAIN obj.items |->
                    IF obj.items[i].key = key THEN [key |-> key, val |-> val]
                    ELSE obj.items[i]])
    IN  [i \in DOMAIN all |->
            IF i \in shown /\ get(all[i].properties, "securityRules").tag = "array"
            THEN [all[i] EXCEPT !.properties =
                     setKey(all[i].properties, "securityRules",
                            Arr(sortRules(orEmpty(get(all[i].properties, "securityRules")))))]
            ELSE all[i]]

\* allResources after renderSecurityView: rules is the array concat returned,
\* so rules.sort reorders no array of a resource, and nothing else is written
resourcesAfterSecurityView(resources, all) == all

\* ---------------------------------------------- dashboard: applyFilters
applyFilters(all, map, category) ==
    LET filtered  == filteredResources(all, category)
        container == renderDashboardView(cards, all)
    IN  /\ allResources' = IF topologyThrows(filtered, getIconDefined)
                           THEN all
                           ELSE resourcesAfterSecurityView(filtered, all)
        /\ stats' = renderStats(filtered, all)
        /\ cards' = container
        /\ selectedCard' = highlightSelectedCard(container, category)
        /\ tableRows' = filtered
        /\ network' = renderNetworkTopology(filtered, all, map, getIconDefined, network)
        /\ nsgCards' = IF topologyThrows(filtered, getIconDefined)
                       THEN nsgCards
                       ELSE renderSecurityView(filtered, all)

\* the resources of every by_type group, in key order, each given its category
loadResources(data) ==
    LET pushed == Flatten([g \in DOMAIN data |-> data[g].resources])
    IN  [i \in DOMAIN pushed |->
            [id |-> pushed[i].id, type |-> pushed[i].type, name |-> pushed[i].name,
             resourceGroup |-> pushed[i].resourceGroup, location |-> pushed[i].location,
             properties |-> pushed[i].properties,
             category |-> getCategory(pushed[i].type)]]

\* window.onload = initializeDashboard
InitializeDashboard ==
    /\ ~loaded
    /\ loaded' = TRUE
    /\ lastEvent' = "load"
    /\ resourceMap' = buildResourceMap(loadResources(architectureData))
    /\ activeFilters' = activeFilters
    /\ applyFilters(loadResources(architectureData), resourceMap', activeFilters')
    /\ UNCHANGED <<architectureData, getIconDefined, categories>>
    /\ UNCHANGED scriptVars

\* mutant: the test is on the filter alone (activeFilters.category ? null :
\* category), a click clears whatever filter is active
toggle_ClearsAnyFilter(active, category) ==
    IF active # NoCategory THEN NoCategory ELSE category

\* (activeFilters.category === category) ? null : category
toggle(active, category) == IF active = category THEN NoCategory ELSE category

\* card.onclick of the card of `category`
CardClick(category) ==
    /\ loaded
    /\ \E k \in DOMAIN cards : cards[k].category = category
    /\ lastEvent' = "card"
    /\ activeFilters' = toggle(activeFilters, category)
    /\ applyFilters(allResources, resourceMap, activeFilters')
    /\ UNCHANGED <<architectureData, getIconDefined, loaded, resourceMap, categories>>
    /\ UNCHANGED scriptVars

\* mutant: the listener re-applies the filter without clearing it
ResetFilters_KeepsFilter ==
    /\ loaded
    /\ lastEvent' = "reset"
    /\ activeFilters' = activeFilters
    /\ applyFilters(allResources, resourceMap, activeFilters')
    /\ UNCHANGED <<architectureData, getIconDefined, loaded, resourceMap, categories>>
    /\ UNCHANGED scriptVars

\* the click listener of #reset-filters
ResetFilters ==
    /\ loaded
    /\ lastEvent' = "reset"
    /\ activeFilters' = NoCategory
    /\ applyFilters(allResources, resourceMap, activeFilters')
    /\ UNCHANGED <<architectureData, getIconDefined, loaded, resourceMap, categories>>
    /\ UNCHANGED scriptVars

\* ----------------------------------- PNG generator: categorize_resources
pyCategories ==
    <<"compute", "storage", "database", "network", "security",
      "analytics", "ai_ml", "integration", "monitoring", "other">>

categorize_resources(data) ==
    [c \in DOMAIN pyCategories |->
        [category  |-> pyCategories[c],
         resources |-> Flatten([g \in DOMAIN data |->
                          IF categoryOfType(data[g].type) = pyCategories[c]
                          THEN data[g].resources ELSE <<>>])]]

CategorizeResources ==
    /\ ~categories.done
    /\ categories' = [done |-> TRUE, lists |-> categorize_resources(architectureData)]
    /\ UNCHANGED <<architectureData, getIconDefined, loaded, allResources, resourceMap,
                   activeFilters, stats, cards, selectedCard, tableRows, network, nsgCards,
                   lastEvent>>
    /\ UNCHANGED scriptVars

\* ------------------------------------------------------- extractor: main
outputFiles ==
    <<"azure_current_architecture.txt", "azure_cost_optimization_guide.txt",
      "azure_architecture_export.json">>

\* a script that is not run
NotRun == [pc |-> "idle", steps |-> <<>>, subscription_id |-> Missing, resource_groups |-> <<>>,
           resources |-> NoResources, files |-> <<>>, export |-> <<>>, returncode |-> 0]

\* mutant: main goes on after a failed CLI check
CheckAzureCli_GoesOn ==
    /\ extractor.pc = "check_azure_cli"
    /\ extractor' = [extractor EXCEPT !.steps = Append(@, "check_azure_cli"),
                                      !.pc = "check_authentication"]
    /\ UNCHANGED <<pageVars, azure, diagram, workflow, generator, analyzer>>

\* main: if not extractor.check_azure_cli(): return
CheckAzureCli ==
    /\ extractor.pc = "check_azure_cli"
    /\ extractor' = [extractor EXCEPT !.steps = Append(@, "check_azure_cli"),
                                      !.pc = IF azure.cli THEN "check_authentication"
                                             ELSE "exit"]
    /\ UNCHANGED <<pageVars, azure, diagram, workflow, generator, analyzer>>

\* main: if not extractor.check_authentication(): return
CheckAuthentication ==
    /\ extractor.pc = "check_authentication"
    /\ extractor' = [extractor EXCEPT !.steps = Append(@, "check_authentication"),
                                      !.subscription_id = IF azure.auth THEN azure.account
                                                          ELSE @,
                                      !.pc = IF azure.auth THEN "get_resource_groups"
                                             ELSE "exit"]
    /\ UNCHANGED <<pageVars, azure, diagram, workflow, generator, analyzer>>

\* main: extractor.get_resource_groups()
GetResourceGroups ==
    /\ extractor.pc = "get_resource_groups"
    /\ extractor' = [extractor EXCEPT !.steps = Append(@, "get_resource_groups"),
                                      !.resource_groups = IF azure.groups.returncode = 0
                                                          THEN azure.groups.stdout ELSE <<>>,
                                      !.pc = "get_all_resources"]
    /\ UNCHANGED <<pageVars, azure, diagram, workflow, generator, analyzer>>

\* main: extractor.get_all_resources()
GetAllResources ==
    /\ extractor.pc = "get_all_resources"
    /\ extractor' = [extractor EXCEPT !.steps = Append(@, "get_all_resources"),
                                      !.resources = get_all_resources(azure.resources, @),
                                      !.pc = "generate"]
    /\ UNCHANGED <<pageVars, azure, diagram, workflow, generator, analyzer>>

\* main: the two text files and export_to_json, in this order; an open()
\* that fails raises out of main (return code 1), what was written stays
GenerateOutputs ==
    /\ extractor.pc = "generate"
    /\ extractor' = [extractor EXCEPT
                        !.steps = Append(@, "generate"),
                        !.files = SubSeq(outputFiles, 1, azure.writable),
                        !.export = IF azure.writable = Len(outputFiles)
                                   THEN << export_to_json(extractor.subscription_id,
                                                          extractor.resource_groups,
                                                          extractor.resources) >>
                                   ELSE <<>>,
                        !.returncode = IF azure.writable = Len(outputFiles) THEN 0 ELSE 1,
                        !.pc = "exit"]
    /\ UNCHANGED <<pageVars, azure, diagram, workflow, generator, analyzer>>

\* ------------------- enhanced diagram generator: the interactive diagram
NoDiagram == [created |-> FALSE, cards |-> <<>>, shown |-> NoCategory, details |-> <<>>]

\* create_html_interactive_diagram, the categories dictionary: each by_type
\* list goes to the first category of type_mapping with a keyword in the
\* lower-cased key, else to 'other'
diagram_categories(data) ==
    [c \in DOMAIN pyCategories |->
        [category  |-> pyCategories[c],
         resources |-> Flatten([g \in DOMAIN data |->
                          IF categoryOfType(data[g].type) = pyCategories[c]
                          THEN data[g].resources ELSE <<>>])]]

\* the service cards: one for each category that is not empty, with
\* len(resources) as its count
service_cards(data) ==
    LET filled == SelectSeq(diagram_categories(data), LAMBDA c : c.resources # <<>>)
    IN  [k \in DOMAIN filled |->
            [category |-> filled[k].category, count |-> Len(filled[k].resources)]]

\* getResourcesByCategory of the page's script: every resource whose own
\* lower-cased type includes a keyword of the category, and for 'other' every
\* resource whose type includes no keyword at all
getResourcesByCategory(data, category) ==
    LET keywords == IF \E m \in DOMAIN type_mapping : type_mapping[m].category = category
                    THEN type_mapping[CHOOSE m \in DOMAIN type_mapping :
                                         type_mapping[m].category = category].keywords
                    ELSE <<>>
        listed(resource) ==
            LET resourceType == toLowerCase(resource.type)
            IN  \/ keywordMatch(resourceType, keywords)
                \/ /\ category = "other"
                   /\ \A m \in DOMAIN type_mapping :
                         ~keywordMatch(resourceType, type_mapping[m].keywords)
    IN  Flatten([g \in DOMAIN data |-> SelectSeq(data[g].resources, listed)])

\* python3 azure_enhanced_diagram_generator.py: the page is written
CreateHtmlInteractiveDiagram ==
    /\ ~diagram.created
    /\ diagram' = [diagram EXCEPT !.created = TRUE, !.cards = service_cards(architectureData)]
    /\ UNCHANGED <<pageVars, azure, extractor, workflow, generator, analyzer>>

\* onclick of the card of `category`: showServiceDetails(category)
ShowServiceDetails(category) ==
    /\ diagram.created
    /\ \E k \in DOMAIN diagram.cards : diagram.cards[k].category = category
    /\ diagram' = [diagram EXCEPT !.shown = category,
                                  !.details = getResourcesByCategory(architectureData, category)]
    /\ UNCHANGED <<pageVars, azure, extractor, workflow, generator, analyzer>>

\* ------------------------------- extraction guide: run_extraction_workflow
scripts == <<"azure_architecture_extractor.py", "azure_dependency_analyzer.py">>

\* `present` are the script files os.path.exists finds, `python3` whether
\* subprocess.run can start the interpreter, `started` the scripts launched
NoWorkflow ==
    [pc |-> "idle", present |-> {}, python3 |-> FALSE, started |-> <<>>,
     returncodes |-> <<>>, completed |-> FALSE]

\* the loop over scripts: return at the first script that is not found
CheckScripts ==
    /\ workflow.pc = "check_scripts"
    /\ workflow' = [workflow EXCEPT
           !.pc = IF \A k \in DOMAIN scripts : scripts[k] \in workflow.present
                  THEN "run_extractor" ELSE "returned"]
    /\ UNCHANGED <<pageVars, azure, extractor, diagram, generator, analyzer>>

\* subprocess.run(['python3', 'azure_architecture_extractor.py']) starts the
\* extractor's main, or raises when the interpreter cannot be started
RunExtractor ==
    /\ workflow.pc = "run_extractor"
    /\ IF workflow.python3
       THEN /\ workflow' = [workflow EXCEPT !.pc = "wait_extractor",
                                            !.started = @ \o <<scripts[1]>>]
            /\ extractor' = [NotRun EXCEPT !.pc = "check_azure_cli"]
       ELSE /\ workflow' = [workflow EXCEPT !.pc = "returned"]
            /\ UNCHANGED extractor
    /\ UNCHANGED <<pageVars, azure, diagram, generator, analyzer>>

\* a mutation of ExtractorExited: the return code is not looked at
ExtractorExited_AnyCode ==
    /\ workflow.pc = "wait_extractor"
    /\ extractor.pc = "exit"
    /\ workflow' = [workflow EXCEPT !.pc = "run_analyzer",
                                    !.returncodes = @ \o <<extractor.returncode>>]
    /\ UNCHANGED <<pageVars, azure, extractor, diagram, generator, analyzer>>

\* subprocess.run returns: go on when result.returncode == 0, else return
ExtractorExited ==
    /\ workflow.pc = "wait_extractor"
    /\ extractor.pc = "exit"
    /\ workflow' = [workflow EXCEPT
           !.pc = IF extractor.returncode = 0 THEN "run_analyzer" ELSE "returned",
           !.returncodes = @ \o <<extractor.returncode>>]
    /\ UNCHANGED <<pageVars, azure, extractor, diagram, generator, analyzer>>

\* subprocess.run(['python3', 'azure_dependency_analyzer.py']): whatever its
\* return code, the workflow prints its closing lines
RunAnalyzer(returncode) ==
    /\ workflow.pc = "run_analyzer"
    /\ workflow' = [workflow EXCEPT !.pc = "returned",
                                    !.started = @ \o <<scripts[2]>>,
                                    !.returncodes = @ \o <<returncode>>,
                                    !.completed = TRUE]
    /\ UNCHANGED <<pageVars, azure, extractor, diagram, generator, analyzer>>

\* ----------------------------------- dashboard generator: load and generate
\* d.get(key, default) of a Python dict
dict_get(d, key, default) ==
    IF \E i \in DOMAIN d.items : d.items[i].key = key THEN get(d, key) ELSE default

\* bool(v) of a value json.load returns
truthy(v) ==
    CASE v.tag \in {"object", "array"} -> v.items # <<>>
      [] v.tag = "string" -> v.str # <<>>
      [] v.tag = "number" -> v.num # 0
      [] v.tag = "boolean" -> v.num = 1
      [] OTHER -> FALSE

\* load_architecture_data: the file's value when open, json.load and the
\* print with its two .get calls all succeed, else the empty mapping
load_architecture_data(file) ==
    IF ~file.exists \/ ~file.valid THEN Obj(<<>>)
    ELSE IF file.value.tag # "object" THEN Obj(<<>>)
    ELSE IF dict_get(file.value, "metadata", Obj(<<>>)).tag # "object" THEN Obj(<<>>)
    ELSE file.value

\* _create_svg_icons: the icon files, in the order they are written
icons ==
    <<"virtualMachine.svg", "virtualNetwork.svg", "networkInterface.svg",
      "networkSecurityGroup.svg", "publicIpAddress.svg", "storageAccount.svg",
      "default.svg">>

\* what generate_dashboard creates, in order: the output directory when the
\* path has one, the assets directory, the icons, the HTML file
creations(output_dir) ==
    (IF output_dir = "" THEN <<>> ELSE <<output_dir>>) \o <<"assets">> \o icons \o <<"index.html">>

\* a mutation of generate_dashboard: without the guard on missing data
generate_dashboard_NoGuard(architecture_data, output_dir, disk) ==
    LET metadata == dict_get(architecture_data, "metadata", Obj(<<>>))
    IN  IF \/ metadata.tag # "object"
           \/ dict_get(metadata, "subscription_id", Str(<<"N","/","A">>)).tag # "string"
        THEN [raised |-> TRUE, created |-> <<>>]
        ELSE [raised  |-> FALSE,
              created |-> SubSeq(creations(output_dir), 1,
                                 Min({disk, Len(creations(output_dir))}))]

\* generate_dashboard: nothing without data; str.replace raises on a
\* subscription_id that is no string, before the try block; inside it the
\* first makedirs or open that fails ends the writing, what exists stays
generate_dashboard(architecture_data, output_dir, disk) ==
    IF ~truthy(architecture_data) THEN [raised |-> FALSE, created |-> <<>>]
    ELSE LET metadata == dict_get(architecture_data, "metadata", Obj(<<>>))
         IN  IF \/ metadata.tag # "object"
                \/ dict_get(metadata, "subscription_id", Str(<<"N","/","A">>)).tag # "string"
             THEN [raised |-> TRUE, created |-> <<>>]
             ELSE [raised  |-> FALSE,
                   created |-> SubSeq(creations(output_dir), 1,
                                      Min({disk, Len(creations(output_dir))}))]

\* `file` is what the architecture file holds, `disk` the number of
\* directory and file creations the file system lets succeed
NoGenerator ==
    [pc |-> "idle", file |-> [exists |-> FALSE, valid |-> FALSE, value |-> Null],
     output_dir |-> "", disk |-> 0, architecture_data |-> Obj(<<>>),
     raised |-> FALSE, created |-> <<>>]

\* AzureDashboardGenerator(json_file_path)
LoadArchitectureData ==
    /\ generator.pc = "new"
    /\ generator' = [generator EXCEPT
                        !.pc = "loaded",
                        !.architecture_data = load_architecture_data(generator.file)]
    /\ UNCHANGED <<pageVars, azure, extractor, diagram, workflow, analyzer>>

\* generator.generate_dashboard(output_html_path)
GenerateDashboard ==
    /\ generator.pc = "loaded"
    /\ LET result == generate_dashboard(generator.architecture_data,
                                        generator.output_dir, generator.disk)
       IN  generator' = [generator EXCEPT !.pc = "generated",
                                          !.raised = result.raised,
                                          !.created = result.created]
    /\ UNCHANGED <<pageVars, azure, extractor, diagram, workflow, analyzer>>

\* -------------------------------- dependency analyzer: the security analysis
\* get_network_security_groups, get_public_ips: the parsed list when az
\* returns 0, else the empty list
az_list(answer) == IF answer.returncode = 0 THEN answer.stdout ELSE <<>>

\* the test on a rule: rule.get(...) is None for an attribute that is absent
overlyPermissive(rule) ==
    /\ rule.sourceAddressPrefix = "*"
    /\ rule.destinationPortRange \in {"*", "22", "3389"}

\* a mutation of analyze_security_configuration: only inbound Allow rules
analyze_security_configuration_AllowInbound(nsgs, public_ips) ==
    [critical_issues |->
        Flatten([n \in DOMAIN nsgs |->
            IF nsgs[n].hasSecurityRules
            THEN LET hits == SelectSeq(nsgs[n].securityRules,
                                LAMBDA rule : /\ overlyPermissive(rule)
                                              /\ rule.access = "Allow"
                                              /\ rule.direction = "Inbound")
                 IN  [k \in DOMAIN hits |-> [nsg |-> nsgs[n].name, rule |-> hits[k].name]]
            ELSE <<>>]),
     findings |-> IF Len(public_ips) > 0 THEN <<Len(public_ips)>> ELSE <<>>]

\* analyze_security_configuration: for every group with a securityRules
\* key, in order, one critical issue naming the group and the rule for each
\* rule that passes the test; one finding when there are public addresses
analyze_security_configuration(nsgs, public_ips) ==
    [critical_issues |->
        Flatten([n \in DOMAIN nsgs |->
            IF nsgs[n].hasSecurityRules
            THEN LET hits == SelectSeq(nsgs[n].securityRules, overlyPermissive)
                 IN  [k \in DOMAIN hits |-> [nsg |-> nsgs[n].name, rule |-> hits[k].name]]
            ELSE <<>>]),
     findings |-> IF Len(public_ips) > 0 THEN <<Len(public_ips)>> ELSE <<>>]

\* generate_security_report, its first two sections: the issues or the
\* no-critical-issues line, the findings or the no-findings line
generate_security_report(security_analysis) ==
    [critical_issues   |-> security_analysis.critical_issues,
     no_critical_line  |-> ~(security_analysis.critical_issues # <<>>),
     findings          |-> security_analysis.findings,
     no_findings_line  |-> ~(security_analysis.findings # <<>>)]

NoAnalysis == [critical_issues |-> <<>>, findings |-> <<>>]

\* `nsg_list` and `public_ip_list` are what az answers to the two listings
NoAnalyzer ==
    [pc |-> "idle",
     nsg_list |-> [returncode |-> 1, stdout |-> <<>>],
     public_ip_list |-> [returncode |-> 1, stdout |-> <<>>],
     security_analysis |-> NoAnalysis,
     security_report |-> generate_security_report(NoAnalysis)]

\* generate_comprehensive_report: security_analysis = ...
AnalyzeSecurityConfiguration ==
    /\ analyzer.pc = "analyze"
    /\ analyzer' = [analyzer EXCEPT
                       !.pc = "report",
                       !.security_analysis =
                           analyze_security_configuration(az_list(analyzer.nsg_list),
                                                          az_list(analyzer.public_ip_list))]
    /\ UNCHANGED <<pageVars, azure, extractor, diagram, workflow, generator>>

\* generate_comprehensive_report: security_report = ...
GenerateSecurityReport ==
    /\ analyzer.pc = "report"
    /\ analyzer' = [analyzer EXCEPT
                       !.pc = "done",
                       !.security_report = generate_security_report(analyzer.security_analysis)]
    /\ UNCHANGED <<pageVars, azure, extractor, diagram, workflow, generator>>


\* ------------------------------------------------------------- the inputs
Categories ==
    {"Compute", "Storage", "Database", "Network", "Security",
     "Monitoring", "Integration", "Other"}

Resource(id, kind, properties) ==
    [id |-> id, type |-> kind.type, name |-> kind.name,
     resourceGroup |-> kind.resourceGroup, location |-> kind.location,
     properties |-> properties]

SeqsUpTo(S, n) == UNION {[1..k -> S] : k \in 0..n}

Id_a == SUBSCRIPTIONS \o <<"a">>
Id_A == SUBSCRIPTIONS \o <<"A">>      \* Id_a in another case
Id_b == SUBSCRIPTIONS \o <<"b">>
Id_B == <<"/","B">>                   \* an id outside /subscriptions/

storageAccounts ==
    MS \o <<"S","t","o","r","a","g","e","/","s","t","o","r","a","g","e",
            "A","c","c","o","u","n","t","s">>
virtualNetworks ==
    MS \o <<"N","e","t","w","o","r","k","/","v","i","r","t","u","a","l",
            "N","e","t","w","o","r","k","s">>

Kinds ==
    { [type |-> storageAccounts, name |-> "store", resourceGroup |-> "rg-data",
       location |-> "eastus"],
      [type |-> networkSecurityGroups, name |-> "nsg", resourceGroup |-> "rg-net",
       location |-> "westus"] }

\* two references to the key of Id_a / Id_A, one nested in a mapping and in
\* upper case, one in a sequence next to a number and a null
RefsToA ==
    Obj(<< [key |-> "subnet",
            val |-> Obj(<< [key |-> "id",
                            val |-> Str(<<"/","S","U","B","S","C","R","I","P","T","I","O","N","S",
                                          "/","A">>)] >>)],
           [key |-> "peers", val |-> Arr(<< Str(Id_a), Num(7), Null >>)] >>)

\* a reference to Id_b in mixed case and one to Id_B in lower case
RefsToB ==
    Obj(<< [key |-> "ref",
            val |-> Str(<<"/","S","u","b","s","c","r","i","p","t","i","o","n","s","/","B">>)],
           [key |-> "gateway", val |-> Arr(<< Obj(<< [key |-> "id",
                                                     val |-> Str(<<"/","b">>)] >>) >>)] >>)

\* a reference to an id no resource has
RefToUnknown ==
    Obj(<< [key |-> "ref", val |-> Str(SUBSCRIPTIONS \o <<"z">>)],
           [key |-> "enabled", val |-> Bool(TRUE)] >>)

PropertiesPool == {Undefined, Obj(<<>>), RefsToA, RefsToB, RefToUnknown}

ResourcePool ==
    {Resource(id, kind, properties) :
        id \in {Id_a, Id_b, Id_B}, kind \in Kinds, properties \in PropertiesPool}

\* resources whose ids collide in the index
CollisionPool ==
    {Resource(id, kind, properties) :
        id \in {Id_a, Id_A, Id_b}, kind \in Kinds, properties \in {Obj(<<>>), RefsToA}}

\* the two-resource scenario of the specification
Scenario ==
    << [id |-> <<"a">>, type |-> storageAccounts, name |-> Missing,
        resourceGroup |-> Missing, location |-> Missing,
        properties |-> Obj(<< [key |-> "ref", val |-> Str(<<"/","A">>)] >>)],
       [id |-> <<"A">>, type |-> virtualNetworks, name |-> Missing,
        resourceGroup |-> Missing, location |-> Missing,
        properties |-> Obj(<<>>)] >>

Datasets ==
    SeqsUpTo(ResourcePool, MaxResources)
        \cup [1..(MaxResources + 1) -> CollisionPool]
        \cup {Scenario}

\* type strings for the classifiers: every prefix of serviceCategories at the
\* start of a type, some of them lower-cased, some not at the start, two in
\* one type, and types no rule knows
TypeStrings ==
    {serviceCategories[i].prefix \o <<"/","x">> : i \in DOMAIN serviceCategories}
        \cup {toLowerCase(serviceCategories[i].prefix \o <<"/","x">>) : i \in {2, 8}}
        \cup {<<"x",".">> \o serviceCategories[i].prefix : i \in {1}}
        \cup {serviceCategories[p[1]].prefix \o <<"/">> \o serviceCategories[p[2]].prefix :
                 p \in {<<2, 6>>, <<6, 2>>}}
        \cup {<<>>, MS \o <<"W","e","b","/","s","i","t","e","s">>}

Digits == <<"1","2","3","4","5","6","7","8","9">>

ClassifyDatasets ==
    {[i \in DOMAIN types |->
         Resource(SUBSCRIPTIONS \o <<Digits[i]>>,
                  [type |-> types[i], name |-> "res", resourceGroup |-> "rg",
                   location |-> "eastus"],
                  Obj(<<>>))] : types \in SeqsUpTo(TypeStrings, MaxResources)}

\* network security groups with their rules, as the export nests them:
\* rule = {name, properties: {priority, access}}
Rule(name, p) ==
    Obj(<< [key |-> "name", val |-> Str(name)],
           [key |-> "properties",
            val |-> Obj(<< [key |-> "priority", val |-> Num(p)],
                           [key |-> "access", val |-> Str(<<"A","l","l","o","w">>)] >>)] >>)

\* explicit rules with priorities 300, 100, 100, 200, default rules one of
\* which ties with the explicit 100s, and a reference to Id_a
RulesMixed ==
    Obj(<< [key |-> "securityRules",
            val |-> Arr(<< Rule(<<"r","1">>, 300), Rule(<<"r","2">>, 100),
                           Rule(<<"r","3">>, 100), Rule(<<"r","4">>, 200) >>)],
           [key |-> "defaultSecurityRules",
            val |-> Arr(<< Rule(<<"d","1">>, 65000), Rule(<<"d","2">>, 100) >>)],
           [key |-> "subnets",
            val |-> Arr(<< Obj(<< [key |-> "id", val |-> Str(Id_a)] >>) >>)] >>)

\* an empty explicit list and no default list
RulesEmpty == Obj(<< [key |-> "securityRules", val |-> Arr(<<>>)] >>)

\* no explicit list, default rules out of order
RulesDefault ==
    Obj(<< [key |-> "defaultSecurityRules",
            val |-> Arr(<< Rule(<<"d","1">>, 65001), Rule(<<"d","2">>, 65000) >>)] >>)

kindOf(type) == CHOOSE kind \in Kinds : kind.type = type

SecurityPool ==
    {Resource(id, kindOf(networkSecurityGroups), properties) :
        id \in {Id_a, Id_b},
        properties \in {RulesMixed, RulesEmpty, RulesDefault, Undefined}}
      \cup {Resource(id, kindOf(storageAccounts), Obj(<<>>)) : id \in {Id_a, Id_b}}

SecurityDatasets == SeqsUpTo(SecurityPool, MaxResources)

\* the types of the extractor's resources: one for each branch of
\* analyze_architecture_patterns, two that pass the tests of two branches, one
\* that passes none
ExtractorTypes ==
    { MS \o <<"W","e","b","/","s","i","t","e","s">>,
      MS \o <<"N","e","t","w","o","r","k","/","a","p","p","l","i","c","a","t","i","o","n","G","a","t","e","w","a","y","s">>,
      MS \o <<"S","q","l","/","s","e","r","v","e","r","s">>,
      storageAccounts,
      virtualNetworks,
      MS \o <<"C","o","n","t","a","i","n","e","r","R","e","g","i","s","t","r","y","/","r","e","g","i","s","t","r","i","e","s">>,
      MS \o <<"K","e","y","V","a","u","l","t","/","v","a","u","l","t","s">>,
      MS \o <<"I","n","s","i","g","h","t","s","/","c","o","m","p","o","n","e","n","t","s">>,
      MS \o <<"D","e","v","O","p","s","/","p","i","p","e","l","i","n","e","s">>,
      MS \o <<"C","d","n","/","p","r","o","f","i","l","e","s">> }

\* what `az resource list` prints: resources of these types in rg-data, and
\* resources that lack the type or the resource group
ExtractorPool ==
    {Resource(Id_a, [type |-> t, name |-> "res", resourceGroup |-> "rg-data",
                     location |-> "eastus"], Undefined) : t \in ExtractorTypes}
      \cup {Resource(Id_b, [type |-> t, name |-> Missing, resourceGroup |-> g,
                            location |-> Missing], Undefined) :
                t \in {NoType, storageAccounts}, g \in {Missing, "Unknown", "rg-net"}}

\* the answers of the az commands and of the file system
AzureDown ==
    [cli |-> FALSE, auth |-> FALSE, account |-> Missing,
     groups |-> [returncode |-> 1, stdout |-> <<>>],
     resources |-> [returncode |-> 1, stdout |-> <<>>], writable |-> 0]

AzureAnswers ==
    {AzureDown, [AzureDown EXCEPT !.cli = TRUE]}
      \cup {[cli |-> TRUE, auth |-> TRUE, account |-> "sub-1", groups |-> g, resources |-> r,
             writable |-> w] :
                g \in {[returncode |-> 1, stdout |-> <<>>],
                       [returncode |-> 0, stdout |-> <<"rg-data", "rg-net">>]},
                r \in {[returncode |-> 1, stdout |-> <<>>]}
                         \cup {[returncode |-> 0, stdout |-> d] :
                                  d \in SeqsUpTo(ExtractorPool, MaxResources)},
                w \in {0, 2, Len(outputFiles)}}

\* what the architecture file of the dashboard generator may hold
ArchitectureValues ==
    {Null, Str(<<"x">>), Num(0), Arr(<<>>), Arr(<<Num(1)>>), Obj(<<>>),
     Obj(<<[key |-> "resources", val |-> Obj(<<>>)]>>),
     Obj(<<[key |-> "metadata", val |-> Null]>>),
     Obj(<<[key |-> "metadata", val |-> Obj(<<>>)]>>),
     Obj(<<[key |-> "metadata",
            val |-> Obj(<<[key |-> "subscription_id", val |-> Null]>>)]>>)}
      \cup {Obj(<<[key |-> "metadata",
                   val |-> Obj(<<[key |-> "subscription_id", val |-> Str(<<"s","1">>)],
                                 [key |-> "total_resources", val |-> Num(n)]>>)]>>) :
               n \in 0..MaxResources}

ArchitectureFiles ==
    {[exists |-> FALSE, valid |-> FALSE, value |-> Null],
     [exists |-> TRUE, valid |-> FALSE, value |-> Null]}
      \cup {[exists |-> TRUE, valid |-> TRUE, value |-> v] : v \in ArchitectureValues}

\* security rules as az network nsg list prints them; an attribute that is
\* absent (a rule with sourceAddressPrefixes or destinationPortRanges) is Missing
SecurityRule(name, prefix, port, access, direction) ==
    [name |-> name, sourceAddressPrefix |-> prefix, destinationPortRange |-> port,
     access |-> access, direction |-> direction]

AnyAny     == SecurityRule("any-any", "*", "*", "Allow", "Inbound")
DenySsh    == SecurityRule("deny-ssh", "*", "22", "Deny", "Inbound")
RdpOut     == SecurityRule("rdp-out", "*", "3389", "Allow", "Outbound")
Http       == SecurityRule("http", "*", "80", "Allow", "Inbound")
SshRange   == SecurityRule("ssh-range", "*", "22-23", "Allow", "Inbound")
SshInside  == SecurityRule("ssh-inside", "10.0.0.0/8", "22", "Allow", "Inbound")
Prefixes   == SecurityRule("prefixes", Missing, "*", "Allow", "Inbound")
PortRanges == SecurityRule("port-ranges", "*", Missing, "Allow", "Inbound")

NsgPool ==
    {[name |-> "nsg-none", hasSecurityRules |-> FALSE, securityRules |-> <<>>],
     [name |-> "nsg-empty", hasSecurityRules |-> TRUE, securityRules |-> <<>>]}
      \cup {[name |-> "nsg-a", hasSecurityRules |-> TRUE, securityRules |-> <<r>>] :
               r \in {AnyAny, DenySsh, RdpOut, Http, SshRange, SshInside, Prefixes, PortRanges}}
      \cup {[name |-> "nsg-b", hasSecurityRules |-> TRUE, securityRules |-> rs] :
               rs \in {<<Http, DenySsh>>, <<AnyAny, AnyAny>>, <<RdpOut, SshInside, DenySsh>>}}

NsgAnswers ==
    {[returncode |-> 1, stdout |-> <<>>]}
      \cup {[returncode |-> 0, stdout |-> l] : l \in SeqsUpTo(NsgPool, MaxResources)}

PublicIpAnswers ==
    {[returncode |-> 1, stdout |-> <<>>], [returncode |-> 0, stdout |-> <<>>],
     [returncode |-> 0, stdout |-> <<"pip-1">>]}

\* -------------------------------------------------------- specifications
\* no script is run
ScriptsIdle ==
    /\ azure = AzureDown
    /\ extractor = NotRun
    /\ diagram = NoDiagram
    /\ workflow = NoWorkflow
    /\ generator = NoGenerator
    /\ analyzer = NoAnalyzer

InitPage(datasets) ==
    /\ architectureData \in {by_type(d) : d \in datasets}
    /\ getIconDefined \in BOOLEAN
    /\ loaded = FALSE
    /\ allResources = <<>>
    /\ resourceMap = <<>>
    /\ activeFilters = NoCategory
    /\ stats = NoStats
    /\ cards = <<>>
    /\ selectedCard = NoCategory
    /\ tableRows = <<>>
    /\ network = NoNetwork
    /\ nsgCards = <<>>
    /\ lastEvent = "none"
    /\ categories = [done |-> FALSE, lists |-> <<>>]

InitWith(datasets) == InitPage(datasets) /\ ScriptsIdle

Init == InitWith(Datasets)

Next ==
    \/ InitializeDashboard
    \/ \E category \in Categories : CardClick(category)
    \/ ResetFilters

\* the dashboard page over an export
Spec == Init /\ [][Next]_vars

InitClassify == InitWith(ClassifyDatasets)

NextClassify ==
    \/ InitializeDashboard
    \/ \E category \in Categories : CardClick(category)
    \/ ResetFilters
    \/ CategorizeResources

\* the dashboard page and the PNG generator over the same export
SpecClassify == InitClassify /\ [][NextClassify]_vars

InitSecurity == InitWith(SecurityDatasets)

\* the dashboard page over an export whose security groups carry rules
SpecSecurity == InitSecurity /\ [][Next]_vars

InitExtractor ==
    /\ InitPage({<<>>})
    /\ getIconDefined = FALSE
    /\ azure \in AzureAnswers
    /\ extractor = [NotRun EXCEPT !.pc = "check_azure_cli"]
    /\ diagram = NoDiagram
    /\ workflow = NoWorkflow
    /\ generator = NoGenerator
    /\ analyzer = NoAnalyzer

NextExtractor ==
    \/ CheckAzureCli
    \/ CheckAuthentication
    \/ GetResourceGroups
    \/ GetAllResources
    \/ GenerateOutputs

\* python3 azure_architecture_extractor.py
SpecExtractor == InitExtractor /\ [][NextExtractor]_vars

InitDiagram ==
    /\ InitPage(ClassifyDatasets)
    /\ getIconDefined = FALSE
    /\ ScriptsIdle

NextDiagram ==
    \/ CreateHtmlInteractiveDiagram
    \/ \E c \in DOMAIN pyCategories : ShowServiceDetails(pyCategories[c])

\* the interactive diagram of the enhanced generator over an export
SpecDiagram == InitDiagram /\ [][NextDiagram]_vars

InitWorkflow ==
    /\ InitPage({<<>>})
    /\ getIconDefined = FALSE
    /\ azure \in {a \in AzureAnswers : Len(a.resources.stdout) <= 1}
    /\ extractor = NotRun
    /\ diagram = NoDiagram
    /\ workflow \in {[NoWorkflow EXCEPT !.pc = "check_scripts", !.present = p, !.python3 = b] :
                         p \in SUBSET Range(scripts), b \in BOOLEAN}
    /\ generator = NoGenerator
    /\ analyzer = NoAnalyzer

NextWorkflow ==
    \/ CheckScripts
    \/ RunExtractor
    \/ NextExtractor
    \/ ExtractorExited
    \/ \E returncode \in {0, 1} : RunAnalyzer(returncode)

\* python3 azure_extraction_guide.py, option 1: the complete workflow
SpecWorkflow == InitWorkflow /\ [][NextWorkflow]_vars

InitGenerator ==
    /\ InitPage({<<>>})
    /\ getIconDefined = FALSE
    /\ azure = AzureDown
    /\ extractor = NotRun
    /\ diagram = NoDiagram
    /\ workflow = NoWorkflow
    /\ generator \in {[NoGenerator EXCEPT !.pc = "new", !.file = f, !.output_dir = o, !.disk = d] :
                          f \in ArchitectureFiles, o \in {"", "azure_dashboard"},
                          d \in 0..Len(creations("azure_dashboard"))}
    /\ analyzer = NoAnalyzer

NextGenerator ==
    \/ LoadArchitectureData
    \/ GenerateDashboard

\* python3 azure_dashboard_generator.py up to the HTML file
SpecGenerator == InitGenerator /\ [][NextGenerator]_vars

InitAnalyzer ==
    /\ InitPage({<<>>})
    /\ getIconDefined = FALSE
    /\ azure = AzureDown
    /\ extractor = NotRun
    /\ diagram = NoDiagram
    /\ workflow = NoWorkflow
    /\ generator = NoGenerator
    /\ analyzer \in {[NoAnalyzer EXCEPT !.pc = "analyze", !.nsg_list = n, !.public_ip_list = p] :
                         n \in NsgAnswers, p \in PublicIpAnswers}

NextAnalyzer ==
    \/ AnalyzeSecurityConfiguration
    \/ GenerateSecurityReport

\* the security part of generate_comprehensive_report
SpecAnalyzer == InitAnalyzer /\ [][NextAnalyzer]_vars

\* ------------------------------------------------- vocabulary of the claims
\* the string values of a properties structure, at any depth, in order
RECURSIVE leavesOfItems(_)
leavesOfItems(items) ==
    IF items = <<>>
    THEN <<>>
    ELSE LET v == Head(items).val
         IN  (IF v.tag = "string" THEN <<v.str>>
              ELSE IF isObject(v) THEN leavesOfItems(v.items) ELSE <<>>)
             \o leavesOfItems(Tail(items))

StringLeaves(v) == IF isObject(v) THEN leavesOfItems(v.items) ELSE <<>>

RECURSIVE SumCounts(_)
SumCounts(container) ==
    IF container = <<>> THEN 0 ELSE Head(container).count + SumCounts(Tail(container))

\* the rules of serviceCategories whose keyword occurs in the type
rulesIn(type) == {k \in DOMAIN serviceCategories : contains(type, serviceCategories[k].prefix)}

\* the rules of type_mapping with a keyword in the lower-cased type
pyRulesIn(type) ==
    {m \in DOMAIN type_mapping : keywordMatch(toLowerCase(type), type_mapping[m].keywords)}

\* the category list in which categorize_resources put the group of a type
listOf(type) ==
    LET g == CHOOSE g \in DOMAIN architectureData : architectureData[g].type = type
        c == CHOOSE c \in DOMAIN categories.lists :
                 \A k \in DOMAIN architectureData[g].resources :
                     architectureData[g].resources[k] \in Range(categories.lists[c].resources)
    IN  categories.lists[c].category

\* the positions of the string values of resource i that are keys of the index
indexedLeaves(i) ==
    {n \in DOMAIN StringLeaves(allResources[i].properties) :
        has(resourceMap, toLowerCase(StringLeaves(allResources[i].properties)[n]))}

typesOfExport == {architectureData[g].type : g \in DOMAIN architectureData}

\* the derived views the page shows
views ==
    [cards |-> cards, stats |-> stats, rows |-> tableRows, network |-> network,
     nsgCards |-> nsgCards]

\* the derived views a page just opened on the resources `all` shows for the
\* filter value `category`
viewsOf(all, map, category) ==
    LET filtered == filteredResources(all, category)
    IN  [cards    |-> renderDashboardView(<<>>, all),
         stats    |-> renderStats(filtered, all),
         rows     |-> filtered,
         network  |-> renderNetworkTopology(filtered, all, map, getIconDefined, NoNetwork),
         nsgCards |-> IF topologyThrows(filtered, getIconDefined)
                      THEN <<>>
                      ELSE renderSecurityView(filtered, all)]

\* the rules of resource i: its explicit list followed by its default list
rulesOf(i) ==
    orEmpty(get(allResources[i].properties, "securityRules"))
        \o orEmpty(get(allResources[i].properties, "defaultSecurityRules"))

\* listed holds the rules of `rules` (each once), ascending by priority,
\* rules of equal priority in the order they have in `rules`
stablySorted(listed, rules) ==
    /\ Len(listed) = Len(rules)
    /\ Range(listed) = Range(rules)
    /\ \A m, n \in DOMAIN listed : m < n => priority(listed[m]) <= priority(listed[n])
    /\ \A m, n \in DOMAIN rules :
          (m < n /\ priority(rules[m]) = priority(rules[n]))
          => \E x, y \in DOMAIN listed : x < y /\ listed[x] = rules[m] /\ listed[y] = rules[n]

\* the permutations of 1..n
Perms(n) == {f \in [1..n -> 1..n] : \A x, y \in 1..n : f[x] = f[y] => x = y}

\* the loaded resources as the export holds them, in the order f
exportOf(f) ==
    by_type([i \in DOMAIN allResources |->
                Resource(allResources[f[i]].id,
                         [type |-> allResources[f[i]].type, name |-> allResources[f[i]].name,
                          resourceGroup |-> allResources[f[i]].resourceGroup,
                          location |-> allResources[f[i]].location],
                         allResources[f[i]].properties)])

\* the graph a page just opened on the export `data` builds under `category`
graphOf(data, category) ==
    LET all == loadResources(data)
    IN  renderNetworkTopology(filteredResources(all, category), all, buildResourceMap(all),
                              getIconDefined, NoNetwork)

\* no two resources have ids that are equal without regard to case
uniqueIds ==
    \A i, j \in DOMAIN allResources :
       toLowerCase(allResources[i].id) = toLowerCase(allResources[j].id) => i = j

\* the resources that pass the filter
passes(i) == activeFilters = NoCategory \/ allResources[i].category = activeFilters

\* ------------------------------------------------------------------ claims

\* C1: classification ignores letter case and keyword position: the category
\* of a type is the category of its lower-cased form, and a type that
\* contains the keyword of one rule anywhere is given that rule's category
\* (for getCategory and for categorize_resources).
C1_ClassifyIgnoresCaseAndPosition ==
    /\ loaded =>
         \A i \in DOMAIN allResources :
            /\ getCategory(toLowerCase(allResources[i].type)) = allResources[i].category
            /\ \A k \in rulesIn(allResources[i].type) :
                  (\A j \in rulesIn(allResources[i].type) :
                      serviceCategories[j].category = serviceCategories[k].category)
                  => allResources[i].category = serviceCategories[k].category
    /\ categories.done =>
         \A t \in typesOfExport :
            /\ listOf(t) = categoryOfType(toLowerCase(t))
            /\ \A m \in pyRulesIn(t) :
                  pyRulesIn(t) = {m} => listOf(t) = type_mapping[m].category

\* C2: a type that holds the keywords of two or more rules is given the
\* category of the rule declared first, wherever the keywords stand in it.
C2_EarliestRuleWins ==
    /\ loaded =>
         \A i \in DOMAIN allResources :
            Cardinality(rulesIn(allResources[i].type)) >= 2
            => allResources[i].category
                   = serviceCategories[Min(rulesIn(allResources[i].type))].category
    /\ categories.done =>
         \A t \in typesOfExport :
            Cardinality(pyRulesIn(t)) >= 2
            => listOf(t) = type_mapping[Min(pyRulesIn(t))].category

\* C3: every resource gets exactly one category of the fixed set, Other
\* exactly when no prefix of serviceCategories starts its type (the empty
\* type included), and the counts on the cards sum to the number of resources.
C3_ClassifyTotal ==
    loaded =>
        /\ \A i \in DOMAIN allResources :
              /\ allResources[i].category \in Categories
              /\ allResources[i].category = "Other"
                    <=> ~ \E k \in DOMAIN serviceCategories :
                             startsWith(allResources[i].type, serviceCategories[k].prefix)
        /\ SumCounts(cards) = Len(allResources)

C3_Witness ==
    /\ loaded
    /\ \E i \in DOMAIN allResources :
          allResources[i].type = <<>> /\ allResources[i].category = "Other"
    /\ \E i \in DOMAIN allResources : allResources[i].category = "Integration"

\* C4: no edge of the graph joins an id to itself, compared without regard
\* to case, also when a resource's own id stands in its properties.
C4_NoSelfLoops ==
    \A e \in Range(network.edges) : toLowerCase(e.from) # toLowerCase(e.to)

C4_Witness ==
    /\ network.built
    /\ network.edges # <<>>
    /\ \E i \in Range(tableRows) :
          \E leaf \in Range(StringLeaves(allResources[i].properties)) :
             toLowerCase(leaf) = toLowerCase(allResources[i].id)

C6_EdgesWithinIndex ==
    /\ \A e \in Range(network.edges) :
          /\ has(resourceMap, toLowerCase(e.from))
          /\ has(resourceMap, toLowerCase(e.to))
          /\ e.to = allResources[mapGet(resourceMap, toLowerCase(e.to))].id
          /\ \E i \in DOMAIN allResources :
                /\ allResources[i].id = e.from
                /\ \E leaf \in Range(StringLeaves(allResources[i].properties)) :
                      toLowerCase(leaf) = toLowerCase(e.to)
    /\ Len(network.edges)
          <= Cardinality(UNION {{<<i, n>> : n \in indexedLeaves(i)} : i \in Range(tableRows)})

C6_Witness ==
    /\ network.built
    /\ network.edges # <<>>
    /\ \E i \in Range(tableRows) :
          \E leaf \in Range(StringLeaves(allResources[i].properties)) :
             startsWith(toLowerCase(leaf), SUBSCRIPTIONS)
             /\ ~has(resourceMap, toLowerCase(leaf))

\* C7: with no filter, every string value of r.properties, at any depth,
\* that equals in lower case the lower-cased id of another resource t gives
\* the edge (r.id, t.id).
C7_EdgesComplete ==
    (loaded /\ activeFilters = NoCategory) =>
        \A r, t \in DOMAIN allResources :
           \A leaf \in Range(StringLeaves(allResources[r].properties)) :
              (r # t /\ toLowerCase(leaf) = toLowerCase(allResources[t].id))
              => [from |-> allResources[r].id, to |-> allResources[t].id]
                     \in Range(network.edges)

scenarioLoaded == loaded /\ architectureData = by_type(Scenario)

\* C8: in the two-resource scenario (id "a", a storage type, properties
\* {ref: "/A"}; id "A", a network type, empty properties) "a" is Storage,
\* "A" is Network and the edge list is exactly [("a", "A")].
C8_ScenarioEdge ==
    scenarioLoaded =>
        /\ allResources[1].category = "Storage"
        /\ allResources[2].category = "Network"
        /\ network.edges = << [from |-> <<"a">>, to |-> <<"A">>] >>

\* C8 as amended: in the scenario "a" is Storage, "A" is Network and the
\* edge list is empty under every filter.
C8_ScenarioNoEdge ==
    scenarioLoaded =>
        /\ allResources[1].id = <<"a">> /\ allResources[1].category = "Storage"
        /\ allResources[2].id = <<"A">> /\ allResources[2].category = "Network"
        /\ network.edges = <<>>

C8_Witness ==
    /\ scenarioLoaded
    /\ activeFilters = NoCategory
    /\ network.built
    /\ Len(network.nodes) = Len(Scenario)

\* C9: under any filter the nodes of the graph are exactly the filtered
\* resources and its edges are exactly the edges of the unfiltered graph
\* with both ends among those nodes; no edge ends outside the nodes.
C9_Projection ==
    loaded =>
        LET filtered == filteredResources(allResources, activeFilters)
            nodeIds  == {network.nodes[k].id : k \in DOMAIN network.nodes}
            full     == renderNetworkTopology(filteredResources(allResources, NoCategory),
                                              allResources, resourceMap, TRUE, NoNetwork)
        IN  /\ nodeIds = {allResources[i].id : i \in Range(filtered)}
            /\ Range(network.edges)
                  = {e \in Range(full.edges) : e.from \in nodeIds /\ e.to \in nodeIds}
            /\ \A e \in Range(network.edges) : e.from \in nodeIds /\ e.to \in nodeIds

\* C10: after any clicks on cards and resets, every category with resources
\* has a card and the count on each card is the number of resources of its
\* category in the whole of allResources, whatever the filter.
C10_CardTotals ==
    loaded =>
        /\ \A k \in DOMAIN cards :
              cards[k].count
                 = Cardinality({i \in DOMAIN allResources :
                                   allResources[i].category = cards[k].category})
        /\ \A i \in DOMAIN allResources :
              \E k \in DOMAIN cards : cards[k].category = allResources[i].category
        /\ \A k, l \in DOMAIN cards : cards[k].category = cards[l].category => k = l

C10_Witness ==
    /\ loaded
    /\ activeFilters # NoCategory
    /\ Len(tableRows) < Len(allResources)
    /\ \E k \in DOMAIN cards : cards[k].count >= 2

\* C11: after any sequence of card clicks and resets the counts, the table
\* rows, the graph and the security listing are those a page just opened
\* would show for the same resources and the same filter value: the views
\* depend on no earlier filter, re-applying a filter changes nothing, and
\* with the filter cleared they are the views of the initial load.
C11_ViewsOfFilterAlone ==
    loaded => views = viewsOf(allResources, resourceMap, activeFilters)

C11_Witness ==
    /\ lastEvent = "reset"
    /\ network.built
    /\ network.edges # <<>>
    /\ \E k \in DOMAIN nsgCards : Len(nsgCards[k].rules) >= 2
    /\ Len(cards) >= 2

\* C12: a click on the card of C sets the filter to empty when C is the
\* active filter and to C otherwise (from empty or from another category),
\* and the click that deselects C leaves the views of the unfiltered page.
C12_Toggle ==
    [][\A c \in Categories :
          CardClick(c) =>
             /\ activeFilters = c => activeFilters' = NoCategory
             /\ activeFilters # c => activeFilters' = c
             /\ activeFilters = c =>
                   views' = viewsOf(allResources, resourceMap, NoCategory)]_vars

C12_Witness ==
    /\ lastEvent = "card"
    /\ activeFilters = NoCategory
    /\ Len(cards) >= 2
    /\ Len(tableRows) = Len(allResources)

\* C13: the filter is always empty or one category (one that has a card); it
\* is empty before and after the load and after every reset.
C13_FilterState ==
    /\ activeFilters \in Categories \cup {NoCategory}
    /\ activeFilters # NoCategory => \E k \in DOMAIN cards : cards[k].category = activeFilters
    /\ lastEvent \in {"none", "load", "reset"} => activeFilters = NoCategory

C13_Witness ==
    /\ lastEvent = "reset"
    /\ Len(cards) >= 2
    /\ selectedCard = NoCategory

\* C14: once loaded, allResources is in every state the export's resources
\* as pushed at load (same order, same properties) with the category given at
\* load, and the index is the one built from them; no card click, reset or
\* rendering changes either.
C14_FilterFrame ==
    /\ [](loaded => /\ allResources = loadResources(architectureData)
                     /\ resourceMap = buildResourceMap(allResources))
    /\ [][loaded => (allResources' = allResources /\ resourceMap' = resourceMap)]_vars

C14_Witness ==
    /\ lastEvent \in {"card", "reset"}
    /\ \E k \in DOMAIN nsgCards :
          nsgCards[k].rules
             # orEmpty(get(allResources[nsgCards[k].nsg].properties, "securityRules"))
               \o orEmpty(get(allResources[nsgCards[k].nsg].properties,
                              "defaultSecurityRules"))

\* C15: every network security group that passes the filter has a card in
\* the security view, and the rules on it are its explicit rules followed by
\* its default rules, each once, ascending by priority with equal priorities
\* in input order (none for a group without rules).
C15_RulesListed ==
    loaded =>
        \A i \in DOMAIN allResources :
           (passes(i) /\ allResources[i].type = networkSecurityGroups)
           => \E k \in DOMAIN nsgCards :
                 /\ nsgCards[k].nsg = i
                 /\ stablySorted(nsgCards[k].rules, rulesOf(i))
                 /\ \A l \in DOMAIN nsgCards : nsgCards[l].nsg = i => l = k

lastSeen(id) ==
    Max({j \in DOMAIN allResources : toLowerCase(allResources[j].id) = toLowerCase(id)})

\* C17: with ids that collide without regard to case the index is still
\* built: every id has an entry, the entry is the last resource with that id
\* in load order, and every edge ends at the id of that last resource.
C17_LastSeenWins ==
    loaded =>
        /\ \A i \in DOMAIN allResources :
              /\ has(resourceMap, toLowerCase(allResources[i].id))
              /\ mapGet(resourceMap, toLowerCase(allResources[i].id))
                    = lastSeen(allResources[i].id)
        /\ \A e \in Range(network.edges) : e.to = allResources[lastSeen(e.to)].id

C17_Witness ==
    /\ loaded
    /\ \E i, j \in DOMAIN allResources :
          /\ i < j
          /\ allResources[i].id # allResources[j].id
          /\ lastSeen(allResources[i].id) = j
          /\ \E e \in Range(network.edges) : e.to = allResources[j].id

\* C18: the graph is built whatever the shape of the properties: every
\* resource that passes the filter has exactly one node, also when its
\* properties are absent or empty, and then no edge leaves it; numbers,
\* booleans and nulls give no edge (no more edges than string values).
C18_IrregularShapes ==
    loaded =>
        /\ network.built
        /\ \A i \in DOMAIN allResources :
              passes(i) =>
                 /\ Cardinality({k \in DOMAIN network.nodes :
                                    network.nodes[k].id = allResources[i].id}) = 1
                 /\ (\A j \in DOMAIN allResources :
                        allResources[j].id = allResources[i].id
                        => StringLeaves(allResources[j].properties) = <<>>)
                    => \A e \in Range(network.edges) : e.from # allResources[i].id
        /\ Len(network.edges)
              <= Cardinality(UNION {{<<i, n>> : n \in DOMAIN StringLeaves(allResources[i].properties)} :
                                       i \in {j \in DOMAIN allResources : passes(j)}})

\* C19: the three summary counts are taken over the resources that pass the
\* filter: their number, the number of distinct resource groups among them
\* and the number of distinct locations among them (all resources when the
\* filter is empty).
C19_CountsOverFiltered ==
    loaded =>
        /\ stats.total = Cardinality({i \in DOMAIN allResources : passes(i)})
        /\ stats.resourceGroups
              = Cardinality({allResources[i].resourceGroup :
                                i \in {j \in DOMAIN allResources : passes(j)}})
        /\ stats.locations
              = Cardinality({allResources[i].location :
                                i \in {j \in DOMAIN allResources : passes(j)}})

C19_Witness ==
    /\ lastEvent = "card"
    /\ activeFilters # NoCategory
    /\ stats.total >= 2
    /\ stats.total < Len(allResources)
    /\ stats.resourceGroups
          < Cardinality({allResources[i].resourceGroup : i \in DOMAIN allResources})

\* C20: the table holds one row for each resource that passes the filter and
\* no other row, in the order the resources have in allResources.
C20_RowsInOrder ==
    loaded =>
        /\ Range(tableRows) = {i \in DOMAIN allResources : passes(i)}
        /\ \A m, n \in DOMAIN tableRows : m < n => tableRows[m] < tableRows[n]

C20_Witness ==
    /\ lastEvent = "card"
    /\ activeFilters # NoCategory
    /\ Len(tableRows) >= 2
    /\ Len(tableRows) < Len(allResources)
    /\ \E i \in DOMAIN allResources : ~passes(i) /\ i < tableRows[Len(tableRows)]
\* how often x occurs in the list
count(x, list) == Cardinality({i \in DOMAIN list : list[i] = x})

RECURSIVE SumLen(_)
SumLen(groups) ==
    IF groups = <<>> THEN 0 ELSE Len(Head(groups).resources) + SumLen(Tail(groups))

\* C22: once get_all_resources has grouped the list, by_type and
\* by_resource_group each hold every resource of 'all' in exactly one list (as
\* often as 'all' holds it), the list keyed by its type, or by its resource
\* group, or by Unknown when it has none; the lengths of the lists of each
\* grouping sum to len(all), and that is the total_resources that is exported.
C22_GroupingsPartition ==
    extractor.resources.set =>
        LET all == extractor.resources.all
            byT == extractor.resources.by_type
            byG == extractor.resources.by_resource_group
        IN  /\ \A x \in Range(all) :
                  /\ \A g \in DOMAIN byT :
                        count(x, byT[g].resources)
                           = IF byT[g].type = (IF x.type = NoType THEN Unknown ELSE x.type)
                             THEN count(x, all) ELSE 0
                  /\ \A g \in DOMAIN byG :
                        count(x, byG[g].resources)
                           = IF byG[g].resourceGroup
                                   = (IF x.resourceGroup = Missing THEN "Unknown"
                                      ELSE x.resourceGroup)
                             THEN count(x, all) ELSE 0
                  /\ \E g \in DOMAIN byT : x \in Range(byT[g].resources)
                  /\ \E g \in DOMAIN byG : x \in Range(byG[g].resources)
            /\ \A g, h \in DOMAIN byT : byT[g].type = byT[h].type => g = h
            /\ \A g, h \in DOMAIN byG : byG[g].resourceGroup = byG[h].resourceGroup => g = h
            /\ SumLen(byT) = Len(all)
            /\ SumLen(byG) = Len(all)
            /\ \A x \in Range(extractor.export) : x.metadata.total_resources = Len(all)

C22_Witness ==
    /\ extractor.pc = "exit"
    /\ extractor.export # <<>>
    /\ Len(extractor.resources.all) >= 2
    /\ \E x \in Range(extractor.resources.all) : x.type = NoType
    /\ \E x, y \in Range(extractor.resources.all) :
          x.resourceGroup = Missing /\ y.resourceGroup = "Unknown"
mainOrder ==
    <<"check_azure_cli", "check_authentication", "get_resource_groups",
      "get_all_resources", "generate">>

\* C25: main calls its steps in the order CLI check, authentication check,
\* resource-group listing, resource listing, file generation, each at most
\* once; after a failed CLI check nothing else is called (authentication is
\* not checked), after a failed authentication check nothing is listed, and
\* in both cases no file is written.
C25_MainOrder ==
    /\ Len(extractor.steps) <= Len(mainOrder)
    /\ extractor.steps = SubSeq(mainOrder, 1, Len(extractor.steps))
    /\ ~azure.cli => Len(extractor.steps) <= 1
    /\ ~azure.auth => Len(extractor.steps) <= 2
    /\ (~azure.cli \/ ~azure.auth) =>
          /\ extractor.files = <<>>
          /\ extractor.export = <<>>
          /\ ~extractor.resources.set
          /\ extractor.resource_groups = <<>>
    /\ (extractor.pc = "exit" /\ azure.cli /\ azure.auth) => extractor.steps = mainOrder

C25_Witness ==
    /\ extractor.pc = "exit"
    /\ azure.cli
    /\ ~azure.auth
    /\ extractor.steps = <<"check_azure_cli", "check_authentication">>

\* C28: in the exported architecture_patterns every resource is in at most
\* one pattern list: the list of the first branch (in the order
\* web_applications, databases, storage_accounts, networking, compute,
\* security, monitoring, devops) with a keyword in its lower-cased type, so a
\* type with both 'app' and 'network' is in web_applications; a resource
\* whose type has no keyword of any branch is in no list.
C28_FirstBranchOnly ==
    \A ex \in Range(extractor.export) :
       /\ [b \in DOMAIN ex.architecture_patterns |-> ex.architecture_patterns[b].pattern]
             = <<"web_applications", "databases", "storage_accounts", "networking",
                 "compute", "security", "monitoring", "devops">>
       /\ \A x \in Range(ex.resources.all) :
             LET lower   == toLowerCase(IF x.type = NoType THEN Unknown ELSE x.type)
                 passing == {b \in DOMAIN patternBranches :
                                \E k \in DOMAIN patternBranches[b].keywords :
                                   contains(lower, patternBranches[b].keywords[k])}
             IN  \A b \in DOMAIN ex.architecture_patterns :
                    count(x, ex.architecture_patterns[b].resources)
                       = IF passing # {} /\ b = Min(passing)
                         THEN count(x, ex.resources.all) ELSE 0
       /\ \A x \in Range(ex.resources.all) :
             (contains(toLowerCase(x.type), <<"a","p","p">>)
                /\ contains(toLowerCase(x.type), <<"n","e","t","w","o","r","k">>))
             => x \in Range(ex.architecture_patterns[1].resources)

C28_Witness ==
    \E ex \in Range(extractor.export) :
       /\ \E x \in Range(ex.architecture_patterns[1].resources) :
             contains(toLowerCase(x.type), <<"n","e","t","w","o","r","k">>)
       /\ \E x \in Range(ex.resources.all) :
             \A b \in DOMAIN ex.architecture_patterns :
                x \notin Range(ex.architecture_patterns[b].resources)
\* what is shown for an attribute: the placeholder Unknown when it is missing
shownAs(value) == IF value = Missing THEN "Unknown" ELSE value

\* C21: a resource without name, resourceGroup or location is loaded and
\* classified like any other, has its row and its node in the views whenever
\* it passes the filter, and is shown with Unknown in place of the missing
\* attribute; the resources without a resource group count as one group.
C21_MissingAsUnknown ==
    loaded =>
        /\ Len(allResources) = SumLen(architectureData)
        /\ \A i \in {j \in DOMAIN allResources :
                        Missing \in {allResources[j].name, allResources[j].resourceGroup,
                                     allResources[j].location}} :
              /\ allResources[i].category \in Categories
              /\ passes(i) =>
                    /\ i \in Range(tableRows)
                    /\ rowCells(allResources[i]).name = shownAs(allResources[i].name)
                    /\ rowCells(allResources[i]).resourceGroup
                          = shownAs(allResources[i].resourceGroup)
                    /\ rowCells(allResources[i]).location = shownAs(allResources[i].location)
                    /\ \E k \in DOMAIN network.nodes :
                          /\ network.nodes[k].id = allResources[i].id
                          /\ network.nodes[k].label = shownAs(allResources[i].name)
        /\ stats.resourceGroups
              = Cardinality({shownAs(allResources[i].resourceGroup) :
                                i \in {j \in DOMAIN allResources : passes(j)}})
\* C23: whenever a category is the active filter, at least one resource has
\* that category, the number of visible resources in the summary is the
\* count on that category's card, and the table is not empty.
C23_ActiveFilterNonEmpty ==
    activeFilters # NoCategory =>
        /\ \E i \in DOMAIN allResources : allResources[i].category = activeFilters
        /\ \E k \in DOMAIN cards :
              cards[k].category = activeFilters /\ cards[k].count = stats.total
        /\ stats.total > 0
        /\ tableRows # <<>>

C23_Witness ==
    /\ lastEvent = "card"
    /\ activeFilters # NoCategory
    /\ Len(cards) >= 2
    /\ \E k \in DOMAIN cards : cards[k].category = activeFilters /\ cards[k].count >= 2

\* C29: under a filter other than Network the security view lists no
\* network security group; with the filter empty or Network it lists every
\* resource whose type is exactly Microsoft.Network/networkSecurityGroups.
C29_SecurityViewUnderFilter ==
    loaded =>
        /\ activeFilters \notin {NoCategory, "Network"} => nsgCards = <<>>
        /\ activeFilters \in {NoCategory, "Network"} =>
              {nsgCards[k].nsg : k \in DOMAIN nsgCards}
                 = {i \in DOMAIN allResources : allResources[i].type = networkSecurityGroups}
\* C27: in the interactive diagram the count on the card of a category is
\* the number of resources its detail view lists, for every export.
C27_CardCountIsDetailCount ==
    diagram.shown # NoCategory =>
        \A k \in DOMAIN diagram.cards :
           diagram.cards[k].category = diagram.shown
           => diagram.cards[k].count = Len(diagram.details)
\* C24: the workflow starts the extractor first and the analyzer only after
\* the extractor has exited with return code 0, and starts neither script
\* when one of the two script files is missing.
C24_AnalyzerGatedOnExtractor ==
    /\ workflow.started \in {<<>>, <<scripts[1]>>, scripts}
    /\ scripts[2] \in Range(workflow.started)
          => extractor.pc = "exit" /\ extractor.returncode = 0
    /\ Range(scripts) \ workflow.present # {} => workflow.started = <<>>

C24_Witness ==
    /\ workflow.started = scripts
    /\ extractor.export # <<>>

\* the extractor has failed and the workflow has returned without the analyzer
C24_WitnessFailed ==
    /\ workflow.pc = "returned"
    /\ workflow.started = <<scripts[1]>>
    /\ extractor.returncode = 1
\* C26: when the architecture file is missing or is not JSON the generator's
\* data is the empty mapping and generate_dashboard creates no directory, no
\* icon and no HTML file; the HTML file is written only when data was loaded.
C26_NothingWithoutData ==
    LET loadFailed == ~generator.file.exists \/ ~generator.file.valid
    IN  /\ generator.pc \in {"loaded", "generated"} /\ loadFailed
              => generator.architecture_data = Obj(<<>>)
        /\ generator.pc = "generated" /\ loadFailed
              => generator.created = <<>> /\ ~generator.raised
        /\ "index.html" \in Range(generator.created)
              => /\ ~loadFailed
                 /\ generator.architecture_data = generator.file.value
                 /\ generator.architecture_data # Obj(<<>>)

C26_Witness ==
    /\ generator.pc = "generated"
    /\ generator.file.exists /\ ~generator.file.valid
    /\ generator.disk = Len(creations("azure_dashboard"))
    /\ generator.created = <<>>

\* a loaded export of which the HTML file is written
C26_WitnessWritten ==
    /\ "index.html" \in Range(generator.created)
    /\ generator.file.valid
C30_WitnessNone ==
    /\ analyzer.pc = "done"
    /\ analyzer.security_report.no_critical_line
    /\ analyzer.nsg_list.stdout # <<>>
====
